---- MODULE Spec2Model ----
(***************************************************************************)
(* Model of aws_finops_dashboard/helpers.py: the five export operations,   *)
(* upload_to_s3, the CSV writer used by export_audit_report_to_csv and     *)
(* load_config_file.                                                       *)
(*                                                                         *)
(* A string is a sequence of tokens; "/" is the path separator token, the  *)
(* other tokens are path components, name parts or single characters.      *)
(* An Optional[str] is a record [isNone, s].                               *)
(***************************************************************************)
EXTENDS Integers, Sequences, FiniteSets, TLC

VARIABLES
    pc,              \* position of the running call
    call,            \* the arguments of the running call
    base_filename,   \* local of the export operations
    output_filename, \* local of the export operations (<<>>: not yet assigned)
    buffer,          \* in-memory document (StringIO / BytesIO / bytes); <<>>: nothing yet
    dirs,            \* filesystem: the directories that exist (absolute paths)
    files,           \* filesystem: absolute path -> content, for the files that exist
    objects,         \* object store: <<bucket, key>> -> content
    console,         \* what console.print has emitted, in order
    result,          \* value returned to the caller
    exc,             \* exception in flight ("" when none)
    raised,          \* exception that reached the caller ("" when none)
    trace,           \* sink operations performed by the call, in order
    fault,           \* an input or environment failure happened during the call
    dirs0,           \* the directories that existed when the call started
    csv_rows,        \* audit_data_list given to the CSV writer
    csv_out,         \* text produced by the CSV writer
    tomllib,         \* "module" or "None" (lines 12-18)
    calls            \* the export calls running concurrently: call -> its locals

vars == <<pc, call, base_filename, output_filename, buffer, dirs, files, objects,
          console, result, exc, raised, trace, fault, dirs0, csv_rows, csv_out,
          tomllib, calls>>

-----------------------------------------------------------------------------
(* Bounds of the model *)

MaxRows == 1
MaxPrefixLen == 2
MaxCsvRows == 2
MaxFieldLen == 1

-----------------------------------------------------------------------------
(* Optional values and strings *)

None == [isNone |-> TRUE, s |-> <<>>]
Some(s) == [isNone |-> FALSE, s |-> s]

\* Python truthiness of an Optional[str]: None and "" are falsy
Truthy(x) == ~x.isNone /\ x.s # <<>>

SeqsUpTo(S, n) == UNION {[1..k -> S] : k \in 0..n}

\* str.lstrip("/")
RECURSIVE LStrip(_)
LStrip(s) == IF s # <<>> /\ Head(s) = "/" THEN LStrip(Tail(s)) ELSE s

\* os.path.isabs
IsAbs(p) == p # <<>> /\ Head(p) = "/"

\* os.path.join(a, b) for a non-empty a
Join(a, b) ==
    IF IsAbs(b) THEN b
    ELSE IF a[Len(a)] = "/" THEN a \o b
    ELSE a \o <<"/">> \o b

Cwd == <<"/", "cwd">>

\* os.path.abspath, and the path the operating system resolves a name to
AbsPath(p) == IF IsAbs(p) THEN p ELSE Join(Cwd, p)

\* index of the last separator of an absolute path
LastSep(p) == CHOOSE i \in 1..Len(p) :
                 p[i] = "/" /\ \A j \in (i+1)..Len(p) : p[j] # "/"

\* os.path.dirname of an absolute path
DirName(p) == IF LastSep(p) = 1 THEN <<"/">> ELSE SubSeq(p, 1, LastSep(p) - 1)

\* the directory and all its parents
RECURSIVE Ancestors(_)
Ancestors(d) == IF d = <<"/">> THEN {d} ELSE {d} \cup Ancestors(DirName(d))

-----------------------------------------------------------------------------
(* The export operations: arguments *)

Ops == {"audit_pdf", "audit_csv", "audit_json", "trend_json", "cost_pdf"}
PdfOps == {"audit_pdf", "cost_pdf"}
TextOps == Ops \ PdfOps

Ext(op) == IF op \in PdfOps THEN ".pdf"
           ELSE IF op = "audit_csv" THEN ".csv" ELSE ".json"

\* Rows the caller may pass:
\*   "full"    a mapping with every key the operation reads, plain values
\*   "partial" a mapping without the 'profile' key
\*   "opaque"  a mapping with every key, one value not JSON-serialisable
\*   "none"    an item that is not a mapping
RowKinds == {"full", "partial", "opaque", "none"}
DataSets == SeqsUpTo(RowKinds, MaxRows)

FileNames == {<<"report">>}
Timestamps == {"20250101_0000"}
PathArgs == {None, Some(<<"out">>), Some(<<"out", "/", "sub">>), Some(<<"/", "srv">>)}
BucketArgs == {None, Some(<<"bkt">>)}
SessionArgs == {"None", "session"}
PrefixArgs == {None} \cup {Some(s) : s \in SeqsUpTo({"/", "p"}, MaxPrefixLen)}

\* `if s3_bucket and session`
UseRemote(c) == Truthy(c.bucket) /\ c.session # "None"

\* f"{file_name}_{timestamp}.<ext>"
BaseFilename(op, file_name, ts) == file_name \o <<"_", ts, Ext(op)>>

\* The key without the lstrip("/")
S3KeyNoStrip(prefix, base) ==
    IF Truthy(prefix) THEN prefix.s \o <<"/">> \o base ELSE base

\* f"{s3_prefix}/{base_filename}" if s3_prefix else base_filename, then lstrip("/")
S3Key(prefix, base) ==
    LStrip(IF Truthy(prefix) THEN prefix.s \o <<"/">> \o base ELSE base)

\* f"s3://{bucket}/{key}"
S3Path(bucket, key) == <<"s3://">> \o bucket \o <<"/">> \o key

\* Whether building the document from the rows raises, and what
RowRaises(op, kind) ==
    IF op = "audit_csv" THEN (IF kind = "none" THEN "AttributeError" ELSE "")
    ELSE IF op \in {"audit_json", "trend_json"}
         THEN (IF kind = "opaque" THEN "TypeError" ELSE "")
    ELSE IF kind = "partial" THEN "KeyError"
    ELSE IF kind = "none" THEN "TypeError" ELSE ""

RECURSIVE DataRaises(_, _)
DataRaises(op, data) ==
    IF data = <<>> THEN ""
    ELSE IF RowRaises(op, Head(data)) # "" THEN RowRaises(op, Head(data))
    ELSE DataRaises(op, Tail(data))

\* The serialized document: a heading chunk and one chunk per row
Doc(op, data) == <<op>> \o data

-----------------------------------------------------------------------------
(* Console *)

ErrorMsg(by) == [kind |-> "error", by |-> by]
SuccessMsg(by) == [kind |-> "success", by |-> by]

\* A narrower clause: `except (OSError, ClientError)`
ExportCatchesOsOnly(e) ==
    e \in {"OSError", "FileNotFoundError", "PermissionError", "ClientError"}

\* `except Exception` at the boundary of an export operation
ExportCatches(e) == TRUE

\* `except ClientError` / `except Exception` of upload_to_s3
UploadCatches(e) == TRUE

\* The export operation adding its own diagnostic when the upload returned None
RemoteReportAlways(op, s3_path) ==
    IF Truthy(s3_path) THEN <<SuccessMsg(op)>> ELSE <<ErrorMsg(op)>>

\* lines 187-190: the export operation reports a remote write only when it succeeded
RemoteReport(op, s3_path) == IF Truthy(s3_path) THEN <<SuccessMsg(op)>> ELSE <<>>

\* The remote branch without its return: control falls through to the local write
AfterUploadFallThrough == "path"

\* lines 191, 258, 295, 332, 453: `return s3_path` ends the call after the upload
AfterUpload == "done"

\* line 267 (and 304, 341): the CSV and JSON exports return the name they opened
TextReturn(name) == name

\* line 193 (and 455): the PDF exports return os.path.abspath of the name
PdfReturn(name) == AbsPath(name)

\* os.makedirs(path, exist_ok=True)
MakeDirs(ds, path) == ds \cup Ancestors(AbsPath(path))

\* lines 122-123: export_audit_report_to_pdf joins the directory and the name
AuditPdfLocalDirs(ds, path) == ds

\* lines 372-374: export_cost_dashboard_to_pdf creates the directory first
CostPdfLocalDirs(ds, path) == MakeDirs(ds, path)

\* lines 261-263 (and 298-300, 335-337)
TextLocalDirs(ds, path) == MakeDirs(ds, path)

LocalName(c, base) == IF Truthy(c.path) THEN Join(c.path.s, base) ELSE base

Put(f, k, v) == [x \in DOMAIN f \cup {k} |-> IF x = k THEN v ELSE f[x]]

SinkOp(kind, target, buffered) == [kind |-> kind, target |-> target, buffered |-> buffered]

-----------------------------------------------------------------------------
(* The export operations: steps *)

csvVars == <<csv_rows, csv_out, tomllib, calls>>

\* An exception raised inside the try block of an export operation reaches its
\* except clause (lines 195-197, 268-270, 305-307, 342-344, 456-458)
Raise(e) ==
    /\ exc' = e
    /\ fault' = TRUE
    /\ pc' = "done"
    /\ IF ExportCatches(e)
       THEN /\ console' = Append(console, ErrorMsg(call.op))
            /\ result' = None
            /\ raised' = ""
       ELSE /\ console' = console
            /\ result' = result
            /\ raised' = e

\* The caller invokes an export operation; timestamp and base_filename are computed
Call ==
    /\ pc = "idle"
    /\ \E op \in Ops, data \in DataSets, fn \in FileNames, ts \in Timestamps,
          path \in PathArgs, bucket \in BucketArgs, session \in SessionArgs,
          prefix \in PrefixArgs :
          /\ (bucket.isNone => prefix.isNone)
          /\ call' = [op |-> op, data |-> data, file_name |-> fn, path |-> path,
                      bucket |-> bucket, prefix |-> prefix, session |-> session]
          /\ base_filename' = BaseFilename(op, fn, ts)
          /\ pc' = IF op \in PdfOps THEN "target" ELSE "serialize"
    /\ dirs0' = dirs
    /\ UNCHANGED <<output_filename, buffer, dirs, files, objects, console, result,
                   exc, raised, trace, fault, csvVars>>

\* lines 111-132 and 360-386: the PDF exports choose what the document is built into
PdfSelectTarget ==
    /\ pc = "target"
    /\ call.op \in PdfOps
    /\ \/ /\ UseRemote(call)
          /\ pc' = "compose"
          /\ UNCHANGED <<output_filename, dirs, console, result, exc, raised, fault>>
       \/ /\ ~UseRemote(call)
          /\ call.op = "audit_pdf"
          /\ output_filename' = LocalName(call, base_filename)
          /\ dirs' = IF Truthy(call.path) THEN AuditPdfLocalDirs(dirs, call.path.s) ELSE dirs
          /\ pc' = "compose"
          /\ UNCHANGED <<console, result, exc, raised, fault>>
       \/ /\ ~UseRemote(call)
          /\ call.op = "cost_pdf"
          /\ output_filename' = LocalName(call, base_filename)
          /\ dirs' = IF Truthy(call.path) THEN CostPdfLocalDirs(dirs, call.path.s) ELSE dirs
          /\ pc' = "compose"
          /\ UNCHANGED <<console, result, exc, raised, fault>>
       \/ /\ ~UseRemote(call)
          /\ call.op = "cost_pdf"
          /\ Truthy(call.path)
          /\ Raise("PermissionError")
          /\ UNCHANGED <<output_filename, dirs>>
    /\ UNCHANGED <<call, base_filename, buffer, files, objects, trace, dirs0, csvVars>>

\* lines 134-178 and 388-439: the flowables are composed from the rows
PdfCompose ==
    /\ pc = "compose"
    /\ IF DataRaises(call.op, call.data) # ""
       THEN Raise(DataRaises(call.op, call.data))
       ELSE /\ pc' = "build"
            /\ UNCHANGED <<console, result, exc, raised, fault>>
    /\ UNCHANGED <<call, base_filename, output_filename, buffer, dirs, files, objects,
                   trace, dirs0, csvVars>>

\* lines 180 and 441: doc.build(elements), into the buffer or into the named file
PdfBuild ==
    /\ pc = "build"
    /\ \/ /\ Raise("LayoutError")
          /\ UNCHANGED <<buffer, files, trace>>
       \/ /\ UseRemote(call)
          /\ buffer' = Doc(call.op, call.data)
          /\ pc' = "upload"
          /\ UNCHANGED <<files, trace, console, result, exc, raised, fault>>
       \/ /\ ~UseRemote(call)
          /\ DirName(AbsPath(output_filename)) \notin dirs
          /\ Raise("FileNotFoundError")
          /\ UNCHANGED <<buffer, files, trace>>
       \/ /\ ~UseRemote(call)
          /\ DirName(AbsPath(output_filename)) \in dirs
          /\ Raise("PermissionError")
          /\ UNCHANGED <<buffer, files, trace>>
       \/ /\ ~UseRemote(call)
          /\ DirName(AbsPath(output_filename)) \in dirs
          /\ \E k \in 0..(Len(Doc(call.op, call.data)) - 1) :
                files' = Put(files, AbsPath(output_filename),
                             SubSeq(Doc(call.op, call.data), 1, k))
          /\ trace' = Append(trace, SinkOp("write", AbsPath(output_filename), buffer # <<>>))
          /\ Raise("OSError")
          /\ UNCHANGED buffer
       \/ /\ ~UseRemote(call)
          /\ DirName(AbsPath(output_filename)) \in dirs
          /\ files' = Put(files, AbsPath(output_filename), Doc(call.op, call.data))
          /\ trace' = Append(trace, SinkOp("write", AbsPath(output_filename), buffer # <<>>))
          /\ result' = Some(PdfReturn(output_filename))
          /\ pc' = "done"
          /\ UNCHANGED <<buffer, console, exc, raised, fault>>
    /\ UNCHANGED <<call, base_filename, output_filename, dirs, objects, dirs0, csvVars>>

\* lines 223-247, 285, 322: the CSV and JSON exports serialize into memory
TextSerialize ==
    /\ pc = "serialize"
    /\ IF DataRaises(call.op, call.data) # ""
       THEN /\ Raise(DataRaises(call.op, call.data))
            /\ UNCHANGED buffer
       ELSE /\ buffer' = Doc(call.op, call.data)
            /\ pc' = IF UseRemote(call) THEN "upload" ELSE "path"
            /\ UNCHANGED <<console, result, exc, raised, fault>>
    /\ UNCHANGED <<call, base_filename, output_filename, dirs, files, objects, trace,
                   dirs0, csvVars>>

\* lines 260-263, 297-300, 334-337: the local name, its directory created if given
TextLocalPath ==
    /\ pc = "path"
    /\ \/ /\ output_filename' = LocalName(call, base_filename)
          /\ dirs' = IF Truthy(call.path) THEN TextLocalDirs(dirs, call.path.s) ELSE dirs
          /\ pc' = "open"
          /\ UNCHANGED <<console, result, exc, raised, fault>>
       \/ /\ Truthy(call.path)
          /\ Raise("PermissionError")
          /\ UNCHANGED <<output_filename, dirs>>
    /\ UNCHANGED <<call, base_filename, buffer, files, objects, trace, dirs0, csvVars>>

\* lines 265, 302, 339: open(output_filename, "w") creates or truncates the file
OpenFile ==
    /\ pc = "open"
    /\ \/ /\ DirName(AbsPath(output_filename)) \notin dirs
          /\ Raise("FileNotFoundError")
          /\ UNCHANGED files
       \/ /\ DirName(AbsPath(output_filename)) \in dirs
          /\ Raise("PermissionError")
          /\ UNCHANGED files
       \/ /\ DirName(AbsPath(output_filename)) \in dirs
          /\ files' = Put(files, AbsPath(output_filename), <<>>)
          /\ pc' = "write"
          /\ UNCHANGED <<console, result, exc, raised, fault>>
    /\ UNCHANGED <<call, base_filename, output_filename, buffer, dirs, objects, trace,
                   dirs0, csvVars>>

\* lines 266-267, 303-304, 340-341: the buffer is written, the file closed, the name returned
WriteFile ==
    /\ pc = "write"
    /\ trace' = Append(trace, SinkOp("write", AbsPath(output_filename), buffer # <<>>))
    /\ \/ /\ \E k \in 0..(Len(buffer) - 1) :
                files' = Put(files, AbsPath(output_filename), SubSeq(buffer, 1, k))
          /\ Raise("OSError")
       \/ /\ files' = Put(files, AbsPath(output_filename), buffer)
          /\ result' = Some(TextReturn(output_filename))
          /\ pc' = "done"
          /\ UNCHANGED <<console, exc, raised, fault>>
    /\ UNCHANGED <<call, base_filename, output_filename, buffer, dirs, objects, dirs0,
                   csvVars>>

\* upload_to_s3 (lines 60-93) as called at lines 181-191, 249-258, 287-295, 324-332,
\* 443-453, with the caller's report and return
Upload ==
    /\ pc = "upload"
    /\ LET key == S3Key(call.prefix, base_filename)
           bkt == call.bucket.s
           put == SinkOp("put", <<bkt, key>>, buffer # <<>>)
       IN \/ /\ objects' = Put(objects, <<bkt, key>>, buffer)
             /\ trace' = Append(trace, put)
             /\ console' = console \o RemoteReport(call.op, Some(S3Path(bkt, key)))
             /\ result' = Some(S3Path(bkt, key))
             /\ pc' = AfterUpload
             /\ UNCHANGED <<exc, raised, fault>>
          \/ /\ \E e \in {"ClientError", "EndpointConnectionError"} :
                   /\ trace' = Append(trace, put)
                   /\ IF UploadCatches(e)
                      THEN /\ console' = Append(console, ErrorMsg("upload_to_s3"))
                                           \o RemoteReport(call.op, None)
                           /\ result' = None
                           /\ exc' = e
                           /\ fault' = TRUE
                           /\ pc' = AfterUpload
                           /\ UNCHANGED raised
                      ELSE Raise(e)
             /\ UNCHANGED objects
          \/ /\ IF UploadCatches("UnknownServiceError")
                THEN /\ console' = Append(console, ErrorMsg("upload_to_s3"))
                                     \o RemoteReport(call.op, None)
                     /\ result' = None
                     /\ exc' = "UnknownServiceError"
                     /\ fault' = TRUE
                     /\ pc' = AfterUpload
                     /\ UNCHANGED raised
                ELSE Raise("UnknownServiceError")
             /\ UNCHANGED <<objects, trace>>
    /\ UNCHANGED <<call, base_filename, output_filename, buffer, dirs, files, dirs0,
                   csvVars>>

NoCall == [op |-> "", data |-> <<>>, file_name |-> <<>>, path |-> None,
           bucket |-> None, prefix |-> None, session |-> "None"]

BaseDirs == {<<"/">>, Cwd}

InitCommon ==
    /\ pc = "idle"
    /\ call = NoCall
    /\ base_filename = <<>>
    /\ output_filename = <<>>
    /\ buffer = <<>>
    /\ files = <<>>
    /\ objects = <<>>
    /\ console = <<>>
    /\ result = None
    /\ exc = ""
    /\ raised = ""
    /\ trace = <<>>
    /\ fault = FALSE
    /\ calls = <<>>

Init ==
    /\ InitCommon
    /\ dirs \in {BaseDirs, BaseDirs \cup {Join(Cwd, <<"out">>)}}
    /\ dirs0 = dirs
    /\ csv_rows = <<>>
    /\ csv_out = <<>>
    /\ tomllib = "module"

Next ==
    \/ Call
    \/ PdfSelectTarget
    \/ PdfCompose
    \/ PdfBuild
    \/ TextSerialize
    \/ TextLocalPath
    \/ OpenFile
    \/ WriteFile
    \/ Upload

Spec == Init /\ [][Next]_vars

-----------------------------------------------------------------------------
(* load_config_file (lines 461-516) *)

\* str.lower() of the extension os.path.splitext returns
Lower(ext) == IF ext = ".TOML" THEN ".toml"
              ELSE IF ext = ".YAML" THEN ".yaml" ELSE ext

CfgExts == {".toml", ".TOML", ".yaml", ".YAML", ".yml", ".json", ".ini", ""}
CfgPaths == {<<"cfg", e>> : e \in CfgExts}

\* What a file may hold:
\*   "mapping"    a well-formed document whose top level is a mapping
\*   "scalar"     a well-formed document whose top level is not a mapping
\*   "malformed"  text the format's parser rejects
\*   "binary"     bytes that do not decode as text
\*   "unreadable" a file the process may not open
CfgContents == {"mapping", "scalar", "malformed", "binary", "unreadable"}

Loaded(v) == [exc |-> "", value |-> v]
Failed(e) == [exc |-> e, value |-> ""]

\* tomllib.load / yaml.safe_load / json.load on the opened file
CfgDecode(ext, content) ==
    IF content = "binary" THEN Failed("UnicodeDecodeError")
    ELSE IF ext = ".toml"
         THEN (IF content = "mapping" THEN Loaded("dict") ELSE Failed("TOMLDecodeError"))
    ELSE IF ext \in {".yaml", ".yml"}
         THEN (IF content = "malformed" THEN Failed("YAMLError")
               ELSE Loaded(IF content = "mapping" THEN "dict" ELSE "other"))
    ELSE IF content = "malformed" THEN Failed("JSONDecodeError")
    ELSE Loaded(IF content = "mapping" THEN "dict" ELSE "other")

\* The except clauses of lines 502-514, in order
ExceptClauses == <<"FileNotFoundError", "TOMLDecodeError", "YAMLError",
                   "JSONDecodeError", "Exception">>

\* Whether an exception is an instance of the class a clause names
Matches(e, clause) == clause = "Exception" \/ e = clause

\* Python evaluates the class expression of each clause in turn until one matches;
\* `tomllib.TOMLDecodeError` is an attribute lookup on the module object
RECURSIVE Dispatch(_, _, _)
Dispatch(e, i, lib) ==
    IF i > Len(ExceptClauses) THEN [caught |-> FALSE, raised |-> e]
    ELSE IF ExceptClauses[i] = "TOMLDecodeError" /\ lib = "None"
         THEN [caught |-> FALSE, raised |-> "AttributeError"]
    ELSE IF Matches(e, ExceptClauses[i]) THEN [caught |-> TRUE, raised |-> ""]
    ELSE Dispatch(e, i + 1, lib)

exportVars == <<base_filename, output_filename, buffer, dirs, objects, trace, dirs0,
                csv_rows, csv_out, calls>>

\* The caller invokes load_config_file; lines 463-464
CfgCall ==
    /\ pc = "idle"
    /\ \E path \in CfgPaths :
          call' = [op |-> "load_config", file_path |-> path,
                   file_extension |-> Lower(path[Len(path)])]
    /\ pc' = "cfg_open"
    /\ UNCHANGED <<files, console, result, exc, raised, fault, tomllib, exportVars>>

\* line 467: open(file_path, ...)
CfgOpen ==
    /\ pc = "cfg_open"
    /\ \/ /\ call.file_path \notin DOMAIN files
          /\ exc' = "FileNotFoundError"
          /\ fault' = TRUE
          /\ pc' = "cfg_except"
       \/ /\ call.file_path \in DOMAIN files
          /\ files[call.file_path] = <<"unreadable">>
          /\ exc' = "PermissionError"
          /\ fault' = TRUE
          /\ pc' = "cfg_except"
       \/ /\ call.file_path \in DOMAIN files
          /\ files[call.file_path] # <<"unreadable">>
          /\ pc' = "cfg_load"
          /\ UNCHANGED <<exc, fault>>
    /\ UNCHANGED <<call, files, console, result, raised, tomllib, exportVars>>

\* lines 468-501: the body of the with block
CfgLoad ==
    /\ pc = "cfg_load"
    /\ LET ext == call.file_extension
           got == CfgDecode(ext, files[call.file_path][1])
       IN \/ /\ ext = ".toml"
             /\ tomllib = "None"
             /\ console' = Append(console, ErrorMsg("load_config_file"))
             /\ result' = None
             /\ pc' = "done"
             /\ fault' = TRUE
             /\ UNCHANGED exc
          \/ /\ ext \in {".toml", ".yaml", ".yml", ".json"}
             /\ ~(ext = ".toml" /\ tomllib = "None")
             /\ got.exc # ""
             /\ exc' = got.exc
             /\ fault' = TRUE
             /\ pc' = "cfg_except"
             /\ UNCHANGED <<console, result>>
          \/ /\ ext \in {".toml", ".yaml", ".yml", ".json"}
             /\ ~(ext = ".toml" /\ tomllib = "None")
             /\ got.exc = ""
             /\ got.value = "dict"
             /\ result' = Some(<<"dict">>)
             /\ pc' = "done"
             /\ UNCHANGED <<console, exc, fault>>
          \/ /\ ext \in {".yaml", ".yml", ".json"}
             /\ got.exc = ""
             /\ got.value # "dict"
             /\ console' = Append(console, ErrorMsg("load_config_file"))
             /\ result' = None
             /\ pc' = "done"
             /\ fault' = TRUE
             /\ UNCHANGED exc
          \/ /\ ext \notin {".toml", ".yaml", ".yml", ".json"}
             /\ console' = Append(console, ErrorMsg("load_config_file"))
             /\ result' = None
             /\ pc' = "done"
             /\ fault' = TRUE
             /\ UNCHANGED exc
    /\ UNCHANGED <<call, files, raised, tomllib, exportVars>>

\* lines 502-516: the except clauses
CfgExcept ==
    /\ pc = "cfg_except"
    /\ LET d == Dispatch(exc, 1, tomllib)
       IN IF d.caught
          THEN /\ console' = Append(console, ErrorMsg("load_config_file"))
               /\ result' = None
               /\ UNCHANGED raised
          ELSE /\ raised' = d.raised
               /\ UNCHANGED <<console, result>>
    /\ pc' = "done"
    /\ UNCHANGED <<call, files, exc, fault, tomllib, exportVars>>

InitCfg ==
    /\ pc = "idle"
    /\ call = NoCall
    /\ base_filename = <<>>
    /\ output_filename = <<>>
    /\ buffer = <<>>
    /\ objects = <<>>
    /\ console = <<>>
    /\ result = None
    /\ exc = ""
    /\ raised = ""
    /\ trace = <<>>
    /\ fault = FALSE
    /\ dirs = BaseDirs
    /\ dirs0 = dirs
    /\ csv_rows = <<>>
    /\ csv_out = <<>>
    /\ files \in {<<>>} \cup {[p \in CfgPaths |-> <<c>>] : c \in CfgContents}
    /\ tomllib \in {"module", "None"}
    /\ calls = <<>>

NextCfg ==
    \/ CfgCall
    \/ CfgOpen
    \/ CfgLoad
    \/ CfgExcept

SpecCfg == InitCfg /\ [][NextCfg]_vars

-----------------------------------------------------------------------------
(* The CSV writer of export_audit_report_to_csv (lines 223-247) *)

\* lines 225-233
headers == <<"Profile", "Account ID", "Untagged Resources", "Stopped EC2 Instances",
             "Unused Volumes", "Unused EIPs", "Budget Alerts">>

\* lines 234-242
data_keys == <<"profile", "account_id", "untagged_resources", "stopped_instances",
               "unused_volumes", "unused_eips", "budget_alerts">>

Delimiter == ","
QuoteChar == "\""
LineTerminator == "\r\n"

\* A writer that quotes for the delimiter and the quote character only
CsvNeedsQuoteNoNewline(field) ==
    \E i \in 1..Len(field) : field[i] \in {Delimiter, QuoteChar}

\* csv.writer, QUOTE_MINIMAL: a field is quoted when it holds the delimiter, the
\* quote character or a character of the line terminator
CsvNeedsQuote(field) ==
    \E i \in 1..Len(field) : field[i] \in {Delimiter, QuoteChar, "\n", "\r"}

\* doublequote=True: every quote character inside a quoted field is doubled
RECURSIVE DoubleQuotes(_)
DoubleQuotes(field) ==
    IF field = <<>> THEN <<>>
    ELSE (IF Head(field) = QuoteChar THEN <<QuoteChar, QuoteChar>> ELSE <<Head(field)>>)
         \o DoubleQuotes(Tail(field))

CsvField(field) ==
    IF CsvNeedsQuote(field) THEN <<QuoteChar>> \o DoubleQuotes(field) \o <<QuoteChar>>
    ELSE field

\* writer.writerow: the fields joined by the delimiter, then the line terminator
RECURSIVE CsvJoin(_)
CsvJoin(fields) ==
    IF fields = <<>> THEN <<>>
    ELSE IF Len(fields) = 1 THEN CsvField(fields[1])
    ELSE CsvField(Head(fields)) \o <<Delimiter>> \o CsvJoin(Tail(fields))

WriteRow(fields) == CsvJoin(fields) \o <<LineTerminator>>

\* line 247: [item.get(key, "") for key in data_keys]
ItemFields(item) ==
    [i \in 1..Len(data_keys) |->
        IF data_keys[i] \in DOMAIN item THEN item[data_keys[i]] ELSE <<>>]

RECURSIVE WriteRows(_)
WriteRows(rows) ==
    IF rows = <<>> THEN <<>>
    ELSE WriteRow(ItemFields(Head(rows))) \o WriteRows(Tail(rows))

\* lines 244-247: csv_buffer.getvalue() after the header and the rows are written
CsvText(rows) ==
    WriteRow([i \in 1..Len(headers) |-> <<headers[i]>>]) \o WriteRows(rows)

\* The rows given: 'account_id' always present, 'profile' present or missing,
\* 'budget_alerts' missing or any text over the alphabet
FieldChars == {"a", Delimiter, QuoteChar, "\n"}
FieldTexts == SeqsUpTo(FieldChars, MaxFieldLen)

AuditItem(hasProfile, hasAlerts, alerts) ==
    [k \in {"account_id"} \cup (IF hasProfile THEN {"profile"} ELSE {})
                          \cup (IF hasAlerts THEN {"budget_alerts"} ELSE {}) |->
        IF k = "budget_alerts" THEN alerts ELSE <<"a">>]

AuditItems ==
    {AuditItem(p, TRUE, t) : p \in BOOLEAN, t \in FieldTexts}
      \cup {AuditItem(p, FALSE, <<>>) : p \in BOOLEAN}

\* The writer is applied to the rows
CsvExport ==
    /\ pc = "idle"
    /\ csv_out' = CsvText(csv_rows)
    /\ pc' = "done"
    /\ UNCHANGED <<call, base_filename, output_filename, buffer, dirs, files, objects,
                   console, result, exc, raised, trace, fault, dirs0, csv_rows, tomllib,
                   calls>>

InitCsv ==
    /\ InitCommon
    /\ dirs = BaseDirs
    /\ dirs0 = dirs
    /\ csv_rows \in SeqsUpTo(AuditItems, MaxCsvRows)
    /\ csv_out = <<>>
    /\ tomllib = "module"

NextCsv == CsvExport

SpecCsv == InitCsv /\ [][NextCsv]_vars

\* Reading the text back: the lines of the text (str.splitlines)
RECURSIVE LinesFrom(_, _)
LinesFrom(text, cur) ==
    IF text = <<>> THEN (IF cur = <<>> THEN <<>> ELSE <<cur>>)
    ELSE IF Head(text) \in {LineTerminator, "\n", "\r"}
         THEN <<cur>> \o LinesFrom(Tail(text), <<>>)
    ELSE LinesFrom(Tail(text), Append(cur, Head(text)))

Lines(text) == LinesFrom(text, <<>>)

\* line.split(delimiter)
RECURSIVE SplitFrom(_, _)
SplitFrom(line, cur) ==
    IF line = <<>> THEN <<cur>>
    ELSE IF Head(line) = Delimiter THEN <<cur>> \o SplitFrom(Tail(line), <<>>)
    ELSE SplitFrom(Tail(line), Append(cur, Head(line)))

Split(line) == SplitFrom(line, <<>>)

\* The records a CSV reader sees: line breaks outside quoted fields end a record
RECURSIVE RecordsFrom(_, _)
RecordsFrom(text, inQuotes) ==
    IF text = <<>> THEN 0
    ELSE IF Head(text) = QuoteChar THEN RecordsFrom(Tail(text), ~inQuotes)
    ELSE IF ~inQuotes /\ Head(text) \in {LineTerminator, "\n", "\r"}
         THEN 1 + RecordsFrom(Tail(text), inQuotes)
    ELSE RecordsFrom(Tail(text), inQuotes)

Records(text) == RecordsFrom(text, FALSE)

HasLineBreak(rows) ==
    \E i \in 1..Len(rows) : \E k \in DOMAIN rows[i] :
        \E j \in 1..Len(rows[i][k]) : rows[i][k][j] \in {"\n", "\r"}

-----------------------------------------------------------------------------
(* Two export calls running concurrently (threads of one process, or two       *)
(* processes with the same working directory), each a call of one of the CSV   *)
(* and JSON exports (lines 210-344), both within the same minute.  Each call   *)
(* has its own locals; the filesystem, the bucket and the console are shared.  *)
(* The steps of one call interleave with the steps of the other at the calls   *)
(* into the operating system and the object store.                             *)

Procs == {1, 2}

Idle == [pc |-> "idle", args |-> NoCall, base_filename |-> <<>>,
         output_filename |-> <<>>, buffer |-> <<>>, result |-> None, exc |-> ""]

\* What the two calls are given: the prefixes a caller passes
RacePrefixArgs == {None, Some(<<"p">>)}

\* Two calls resolve to one destination: same directory or bucket and prefix, same
\* base name and extension (the timestamp is the same minute)
SameDestination(a, b) ==
    /\ a.file_name = b.file_name
    /\ Ext(a.op) = Ext(b.op)
    /\ a.path = b.path
    /\ a.bucket = b.bucket
    /\ a.prefix = b.prefix
    /\ a.session = b.session

\* write(2) of the whole buffer at offset 0 through a descriptor opened without
\* O_APPEND: the bytes replace what is there and the file keeps any longer tail
WriteAtStart(old, new) ==
    IF Len(old) > Len(new) THEN new \o SubSeq(old, Len(new) + 1, Len(old)) ELSE new

raceVars == <<pc, call, base_filename, output_filename, buffer, result, exc, raised,
              trace, fault, dirs0, csv_rows, csv_out, tomllib>>

\* lines 219-221 (282-283, 319-320): a call is entered and names its file
RaceCall(p) ==
    /\ calls[p].pc = "idle"
    /\ \E op \in TextOps, data \in DataSets, fn \in FileNames, ts \in Timestamps,
          path \in PathArgs, bucket \in BucketArgs, session \in SessionArgs,
          prefix \in RacePrefixArgs :
          LET a == [op |-> op, data |-> data, file_name |-> fn, path |-> path,
                    bucket |-> bucket, prefix |-> prefix, session |-> session]
          IN /\ (bucket.isNone => prefix.isNone /\ session = "None")
             /\ \A q \in Procs \ {p} :
                   calls[q].pc # "idle" => SameDestination(a, calls[q].args)
             /\ calls' = [calls EXCEPT ![p] =
                   [@ EXCEPT !.pc = "serialize", !.args = a,
                             !.base_filename = BaseFilename(op, fn, ts)]]
    /\ UNCHANGED <<dirs, files, objects, console, raceVars>>

\* lines 223-249 (285-287, 322-324): the document is serialized into memory
RaceSerialize(p) ==
    /\ calls[p].pc = "serialize"
    /\ LET c == calls[p]
           e == DataRaises(c.args.op, c.args.data)
       IN IF e # ""
          THEN /\ calls' = [calls EXCEPT ![p] =
                     [@ EXCEPT !.pc = "done", !.exc = e, !.result = None]]
               /\ console' = IF ExportCatches(e)
                             THEN Append(console, ErrorMsg(c.args.op)) ELSE console
          ELSE /\ calls' = [calls EXCEPT ![p] =
                     [@ EXCEPT !.pc = IF UseRemote(c.args) THEN "upload" ELSE "path",
                               !.buffer = Doc(c.args.op, c.args.data)]]
               /\ UNCHANGED console
    /\ UNCHANGED <<dirs, files, objects, raceVars>>

\* lines 260-263 (297-300, 334-337): the local name, its directory created if given
RacePath(p) ==
    /\ calls[p].pc = "path"
    /\ LET c == calls[p]
       IN /\ dirs' = IF Truthy(c.args.path)
                     THEN TextLocalDirs(dirs, c.args.path.s) ELSE dirs
          /\ calls' = [calls EXCEPT ![p] =
                [@ EXCEPT !.pc = "open",
                          !.output_filename = LocalName(c.args, c.base_filename)]]
    /\ UNCHANGED <<files, objects, console, raceVars>>

\* lines 265, 302, 339: open(output_filename, "w") creates or truncates the file
RaceOpen(p) ==
    /\ calls[p].pc = "open"
    /\ DirName(AbsPath(calls[p].output_filename)) \in dirs
    /\ files' = Put(files, AbsPath(calls[p].output_filename), <<>>)
    /\ calls' = [calls EXCEPT ![p] = [@ EXCEPT !.pc = "write"]]
    /\ UNCHANGED <<dirs, objects, console, raceVars>>

\* lines 266-267, 303-304, 340-341: the buffer is written through the call's own
\* descriptor, the file closed, the name returned
RaceWrite(p) ==
    /\ calls[p].pc = "write"
    /\ LET c == calls[p]
           f == AbsPath(c.output_filename)
       IN /\ files' = Put(files, f, WriteAtStart(files[f], c.buffer))
          /\ calls' = [calls EXCEPT ![p] =
                [@ EXCEPT !.pc = "done", !.result = Some(TextReturn(c.output_filename))]]
    /\ UNCHANGED <<dirs, objects, console, raceVars>>

\* upload_to_s3 (lines 60-86) as called at lines 249-258, 287-295, 324-332: put_object
\* replaces the whole object
RaceUpload(p) ==
    /\ calls[p].pc = "upload"
    /\ LET c == calls[p]
           key == S3Key(c.args.prefix, c.base_filename)
           bkt == c.args.bucket.s
       IN /\ objects' = Put(objects, <<bkt, key>>, c.buffer)
          /\ console' = console \o RemoteReport(c.args.op, Some(S3Path(bkt, key)))
          /\ calls' = [calls EXCEPT ![p] =
                [@ EXCEPT !.pc = AfterUpload, !.result = Some(S3Path(bkt, key))]]
    /\ UNCHANGED <<dirs, files, raceVars>>

InitRace ==
    /\ pc = "idle"
    /\ call = NoCall
    /\ base_filename = <<>>
    /\ output_filename = <<>>
    /\ buffer = <<>>
    /\ files = <<>>
    /\ objects = <<>>
    /\ console = <<>>
    /\ result = None
    /\ exc = ""
    /\ raised = ""
    /\ trace = <<>>
    /\ fault = FALSE
    /\ dirs \in {BaseDirs, BaseDirs \cup {Join(Cwd, <<"out">>)}}
    /\ dirs0 = dirs
    /\ csv_rows = <<>>
    /\ csv_out = <<>>
    /\ tomllib = "module"
    /\ calls = [p \in Procs |-> Idle]

NextRace ==
    \E p \in Procs :
        \/ RaceCall(p)
        \/ RaceSerialize(p)
        \/ RacePath(p)
        \/ RaceOpen(p)
        \/ RaceWrite(p)
        \/ RaceUpload(p)

SpecRace == InitRace /\ [][NextRace]_vars

-----------------------------------------------------------------------------
(* Properties *)

Done == pc = "done"
HasError == \E i \in 1..Len(console) : console[i].kind = "error"
HasSuccess == \E i \in 1..Len(console) : console[i].kind = "success"
RemoteRequested == ~call.bucket.isNone /\ call.bucket.s # <<>> /\ call.session # "None"
PutAttempted == \E i \in 1..Len(trace) : trace[i].kind = "put"
PutFailed == \E i \in 1..Len(trace) :
                trace[i].kind = "put" /\ trace[i].target \notin DOMAIN objects

\* C1: when an export operation or upload_to_s3 meets a failure of serialization,
\* document build, local filesystem write or remote put, the call ends with a None
\* result and an error diagnostic on the console, and no exception reaches the caller.
C1_FailureYieldsNone ==
    Done => /\ raised = ""
            /\ fault => (result = None /\ HasError)

\* C1 witness: a cost PDF export whose document build failed ended with None
C1_Witness ==
    /\ Done
    /\ call.op = "cost_pdf"
    /\ exc = "LayoutError"
    /\ result = None
    /\ HasError
    /\ raised = ""

\* C2: load_config_file returns a mapping or None and never raises to the caller,
\* whatever the path, the content and the availability of the TOML library; every
\* None result comes with a diagnostic.
C2_LoadConfigNeverRaises ==
    Done => /\ raised = ""
            /\ result.isNone => HasError

\* C3: when the remote put of an export fails, the export returns None, exactly one
\* diagnostic is emitted for the whole call, no success message is emitted and no
\* exception is raised.
C3_RemoteFailureOneDiagnostic ==
    (Done /\ PutFailed) =>
        /\ result = None
        /\ raised = ""
        /\ Len(console) = 1
        /\ console[1].kind = "error"
        /\ ~HasSuccess

\* C3 witness: a CSV export whose put was refused with a ClientError
C3_Witness ==
    /\ Done
    /\ call.op = "audit_csv"
    /\ PutFailed
    /\ exc = "ClientError"
    /\ Len(console) = 1

\* C4: an export called with a local directory that does not exist yet, and no
\* remote target, creates the directory with its parents and produces the file at
\* <dir>/<name>_<timestamp>.<ext>; it does not fail because the directory was missing.
C4_MissingDirectoryCreated ==
    (/\ Done
     /\ call.bucket.isNone
     /\ ~call.path.isNone
     /\ AbsPath(call.path.s) \notin dirs0
     /\ exc \in {"", "FileNotFoundError"}) =>
        /\ exc = ""
        /\ Ancestors(AbsPath(call.path.s)) \subseteq dirs
        /\ AbsPath(call.path.s \o <<"/">> \o base_filename) \in DOMAIN files
        /\ ~result.isNone

\* C5: the location returned by an export that wrote to the local filesystem is an
\* absolute path.
C5_LocalResultAbsolute ==
    (Done /\ ~RemoteRequested /\ ~result.isNone) => IsAbs(result.s)

\* C6: the remote store is used if and only if both a bucket and a session are
\* supplied; with a bucket and no session the call performs no put, writes locally
\* and returns a usable local location.
C6_SinkSelection ==
    /\ PutAttempted => RemoteRequested
    /\ (Done /\ RemoteRequested /\ result # None) => PutAttempted
    /\ (/\ Done
        /\ ~call.bucket.isNone
        /\ call.session = "None"
        /\ exc \in {"", "FileNotFoundError"}) =>
           /\ ~PutAttempted
           /\ ~result.isNone
           /\ AbsPath(result.s) \in DOMAIN files

\* C7: the key passed to the put is <prefix>/<filename> when a prefix is given and
\* <filename> otherwise, with the leading slashes stripped, so it never starts with
\* "/"; the location returned on success is s3://<bucket>/<key> for that bucket and key.
C7_KeyAndLocation ==
    \A i \in 1..Len(trace) :
        trace[i].kind = "put" =>
            LET key == trace[i].target[2]
                full == IF ~call.prefix.isNone /\ call.prefix.s # <<>>
                        THEN call.prefix.s \o <<"/">> \o base_filename
                        ELSE base_filename
            IN /\ trace[i].target[1] = call.bucket.s
               /\ \E n \in 0..Len(full) :
                     /\ \A j \in 1..n : full[j] = "/"
                     /\ key = SubSeq(full, n + 1, Len(full))
               /\ key # <<>>
               /\ key[1] # "/"
               /\ (Done /\ ~result.isNone) =>
                     /\ result.s = <<"s3://">> \o call.bucket.s \o <<"/">> \o key
                     /\ trace[i].target \in DOMAIN objects

\* C7 witness: a prefix with a leading slash, stored under the stripped key
C7_Witness ==
    /\ Done
    /\ call.op = "audit_csv"
    /\ call.prefix = Some(<<"/", "p">>)
    /\ result = Some(<<"s3://", "bkt", "/", "p", "/", "report", "_",
                       "20250101_0000", ".csv">>)
    /\ <<(<<"bkt">>), (<<"p", "/", "report", "_", "20250101_0000", ".csv">>)>>
          \in DOMAIN objects

HeaderSplits ==
    /\ Lines(csv_out) # <<>>
    /\ Split(Lines(csv_out)[1]) = [i \in 1..Len(headers) |-> <<headers[i]>>]

\* C8 as stated: for N rows the CSV text has exactly N+1 lines, and line 1 split on
\* the delimiter is the seven header titles in order.
C8_LinesAreRowsPlusOne ==
    Done => /\ Len(Lines(csv_out)) = Len(csv_rows) + 1
            /\ HeaderSplits

\* C8 amended: for N rows the CSV text has exactly N+1 records (line breaks outside
\* quoted fields), which are exactly N+1 lines when no field holds a line break, and
\* more than N+1 lines otherwise; line 1 split on the delimiter is the seven header
\* titles in order.
C8_RecordsAreRowsPlusOne ==
    Done => /\ Records(csv_out) = Len(csv_rows) + 1
            /\ ~HasLineBreak(csv_rows) => Len(Lines(csv_out)) = Len(csv_rows) + 1
            /\ HasLineBreak(csv_rows) => Len(Lines(csv_out)) > Len(csv_rows) + 1
            /\ HeaderSplits

\* C8 witness: two rows, one with a missing field and one whose field holds a newline
C8_Witness ==
    /\ Done
    /\ Len(csv_rows) = 2
    /\ "profile" \notin DOMAIN csv_rows[1]
    /\ "budget_alerts" \in DOMAIN csv_rows[2]
    /\ csv_rows[2]["budget_alerts"] = <<"\n">>
    /\ Records(csv_out) = 3
    /\ Len(Lines(csv_out)) = 4

\* C9: after an export call, whatever its outcome, every destination it touched
\* holds the complete serialized document or does not exist: no empty or partial file.
C9_NoPartialDestination ==
    Done => /\ \A f \in DOMAIN files : files[f] = Doc(call.op, call.data)
            /\ \A o \in DOMAIN objects : objects[o] = Doc(call.op, call.data)

\* C10 as stated: every export call builds its complete output in memory and then
\* performs exactly one write, to exactly one sink.
C10_ExactlyOneBufferedWrite ==
    Done => /\ Len(trace) = 1
            /\ trace[1].buffered

\* C10 amended: every export call performs at most one sink write before returning,
\* and exactly one when it returns a location; the write is a remote put exactly when
\* a bucket and a session were given, never both a put and a file; the output is
\* complete in memory before the write, except in the local mode of the two PDF
\* exports, where the document is built straight into the destination file.
C10_AtMostOneWrite ==
    /\ Len(trace) <= 1
    /\ (Done /\ ~result.isNone) => Len(trace) = 1
    /\ (DOMAIN files = {}) \/ (DOMAIN objects = {})
    /\ \A i \in 1..Len(trace) :
          /\ trace[i].kind = "put" <=> RemoteRequested
          /\ trace[i].kind = "write" <=> ~RemoteRequested
          /\ trace[i].buffered <=>
                ~(call.op \in {"audit_pdf", "cost_pdf"} /\ ~RemoteRequested)

\* C10 witness: a remote JSON export that put its buffer once and wrote no file
C10_Witness ==
    /\ Done
    /\ call.op = "trend_json"
    /\ Len(trace) = 1
    /\ trace[1].kind = "put"
    /\ trace[1].buffered
    /\ DOMAIN files = {}
    /\ ~result.isNone

BothReturned == \A p \in Procs : calls[p].pc = "done" /\ ~calls[p].result.isNone

\* What the shared destination of the two calls holds
RaceDestination ==
    LET c == calls[1]
    IN IF ~c.args.bucket.isNone /\ c.args.bucket.s # <<>> /\ c.args.session # "None"
       THEN objects[<<c.args.bucket.s, LStrip(IF c.args.prefix.isNone \/ c.args.prefix.s = <<>>
                                             THEN c.base_filename
                                             ELSE c.args.prefix.s \o <<"/">> \o c.base_filename)>>]
       ELSE files[AbsPath(c.output_filename)]

\* C11: when two concurrent export calls resolve to the identical destination, then
\* after both have returned a location the destination holds exactly the complete
\* output of one of the two calls, never a mixture of both, and both calls returned
\* the same location.
C11_LastWriteWins ==
    BothReturned =>
        /\ calls[1].result = calls[2].result
        /\ RaceDestination \in {calls[p].buffer : p \in Procs}

====
